---- MODULE Spec2Model ----
(***************************************************************************)
(* Model of the user REST service: the Rocket request handlers of          *)
(* api/user_api.rs on top of the MongoRepo data-access layer of            *)
(* repository/mongodb_repo.rs, with the "users" collection as the state.   *)
(*                                                                         *)
(* Text is modelled as a sequence of one-character strings, an ObjectId as *)
(* a sequence of numbers (its hex digits decoded), Option<T> as a sequence *)
(* of length 0 (None) or 1 (Some).                                         *)
(***************************************************************************)
EXTENDS Integers, Sequences, FiniteSets, TLC

\* ------------------------------------------------------------- bounds
\* Number of ObjectIds the driver hands out in one run.
MaxUsers == 2
\* ------------------------------------------------------------- inputs
\* Length of the hex form of an ObjectId, scaled down from 24.
OidLen == 1

HexDigits == <<"0", "1", "2">>

\* Characters of the identifier strings clients send: hex digits and "g".
IdChars == {"0", "1", "2", "g"}

\* The identifier strings clients send: empty, well-formed, with a character
\* that is no hex digit, too long.
IdStrings ==
    {<< >>} \cup [1..OidLen -> IdChars] \cup {[i \in 1..(OidLen + 1) |-> "0"]}

Oids == [1..OidLen -> 0..(Len(HexDigits) - 1)]

Salts == {"s1"}

\* Request bodies: name, email and plaintext password.
Candidates ==
    { [name |-> "Ana", email |-> "ana@x.com", password |-> <<"s", "e">>],
      [name |-> "Bob", email |-> "bob@x.com", password |-> <<"p", "w">>] }

Clients == {"c1", "c2"}

None == << >>
Some(x) == <<x>>
is_some(o) == Len(o) = 1
\* Variant: the emptiness check of the path parameter is missing.
never_empty(s) == FALSE

is_empty(s) == Len(s) = 0

\* ------------------------------------------------------------- state
VARIABLES
    col,       \* the "users" collection: sequence of User documents
    issued,    \* ObjectIds generated so far
    put,       \* per client: the PUT request between its two round trips
    last,      \* the store round trip / response of the last handler step
    created,   \* number of successful creates
    deleted    \* number of successful deletes

vars == <<col, issued, put, last, created, deleted>>

User(id, name, email, password) ==
    [id |-> id, name |-> name, email |-> email, password |-> password]

\* ------------------------------------------------------------- ObjectId
HexVal(ch) == CHOOSE v \in 0..(Len(HexDigits) - 1) : HexDigits[v + 1] = ch

IsHex(ch) == \E i \in 1..Len(HexDigits) : HexDigits[i] = ch

\* Variant: a parse that checks the length only and reads other characters as 0.
parse_str_lenient(s) ==
    [ok  |-> Len(s) = OidLen,
     oid |-> IF Len(s) = OidLen
             THEN [i \in 1..Len(s) |-> IF IsHex(s[i]) THEN HexVal(s[i]) ELSE 0]
             ELSE << >>]

\* ObjectId::parse_str: Ok(oid) for a string of OidLen hex digits, Err else.
parse_str(s) ==
    IF Len(s) = OidLen /\ \A i \in 1..Len(s) : IsHex(s[i])
    THEN [ok |-> TRUE, oid |-> [i \in 1..Len(s) |-> HexVal(s[i])]]
    ELSE [ok |-> FALSE, oid |-> << >>]

\* ObjectId::new: the n-th identifier the driver generates (n < 3^OidLen).
ObjectId_new(n) ==
    [i \in 1..OidLen |-> (n \div (Len(HexDigits) ^ (OidLen - i))) % Len(HexDigits)]

\* The hex form of an ObjectId, as the insertion acknowledgment carries it.
to_hex(oid) == [i \in 1..Len(oid) |-> HexDigits[oid[i] + 1]]

\* ------------------------------------------------------------- bcrypt
Mix(ch) == IF ch = "s" THEN "K" ELSE IF ch = "e" THEN "r"
           ELSE IF ch = "p" THEN "Q" ELSE "z"

Digest(pw) == [i \in 1..Len(pw) |-> Mix(pw[Len(pw) + 1 - i])]

\* Variant: the password is stored as given.
hashPlain(pw, salt) == pw

\* bcrypt::hash(password, DEFAULT_COST): version and cost, salt, digest.
hash(pw, salt) == <<"$2b$12$", salt>> \o Digest(pw)

IsHash(pw) == Len(pw) >= 2 /\ pw[1] = "$2b$12$" /\ pw[2] \in Salts

\* ------------------------------------------------------------- driver
\* Positions of the documents the filter {"_id": oid} matches.
Matches(c, oid) == {i \in 1..Len(c) : c[i].id = Some(oid)}

FirstMatch(c, oid) == CHOOSE i \in Matches(c, oid) : \A j \in Matches(c, oid) : i <= j

RemoveAt(c, i) == [j \in 1..(Len(c) - 1) |-> IF j < i THEN c[j] ELSE c[j + 1]]

\* Collection::insert_one of a document without _id: the id is generated.
insert_one(c, new_doc, oid) == Append(c, [new_doc EXCEPT !.id = Some(oid)])

\* Variant: the filter is ignored and the first document is returned.
find_one_first(c, oid) == IF Len(c) = 0 THEN None ELSE Some(c[1])

\* Collection::find_one with filter {"_id": oid}: Some(document) or None.
find_one(c, oid) ==
    IF Matches(c, oid) = {} THEN None ELSE Some(c[FirstMatch(c, oid)])

\* Variant: the password is left out of the $set document.
set_name_email(doc, user) ==
    [doc EXCEPT !.name = user.name, !.email = user.email]

\* The update document {"$set": {name, email, password}} applied to one document.
set_fields(doc, user) ==
    [doc EXCEPT !.name = user.name, !.email = user.email,
                !.password = user.password]

\* Variant: the $set is applied to every document (update_many).
update_all(c, oid, user) ==
    [found |-> IF Matches(c, oid) = {} THEN None ELSE Some(c[FirstMatch(c, oid)]),
     col   |-> IF Matches(c, oid) = {} THEN c
               ELSE [i \in 1..Len(c) |-> set_fields(c[i], user)]]

\* Collection::find_one_and_update with filter {"_id": oid}: one atomic store
\* operation; yields the matched document as it was before the update.
find_one_and_update(c, oid, user) ==
    IF Matches(c, oid) = {}
    THEN [found |-> None, col |-> c]
    ELSE LET i == FirstMatch(c, oid)
         IN  [found |-> Some(c[i]),
              col   |-> [c EXCEPT ![i] = set_fields(c[i], user)]]

\* Variant: every document is removed (delete_many without filter).
delete_all(c, oid) ==
    IF Matches(c, oid) = {}
    THEN [found |-> None, col |-> c]
    ELSE [found |-> Some(c[FirstMatch(c, oid)]), col |-> << >>]

\* Variant: the matched document is read but not removed.
delete_keep(c, oid) ==
    IF Matches(c, oid) = {}
    THEN [found |-> None, col |-> c]
    ELSE [found |-> Some(c[FirstMatch(c, oid)]), col |-> c]

\* Collection::find_one_and_delete with filter {"_id": oid}.
find_one_and_delete(c, oid) ==
    IF Matches(c, oid) = {}
    THEN [found |-> None, col |-> c]
    ELSE LET i == FirstMatch(c, oid)
         IN  [found |-> Some(c[i]), col |-> RemoveAt(c, i)]

\* Collection::find without filter: every document, in store order.
find(c) == c

\* ------------------------------------------------------------- MongoRepo
\* A repository call ends in Ok(value) or in a panic (unwrap / expect);
\* "Err" is the Result arm the callers match on.
Panic(c) == [res |-> "panic", users |-> << >>, inserted |-> None, col |-> c]

Ok(users, inserted, c) ==
    [res |-> "Ok", users |-> users, inserted |-> inserted, col |-> c]

MongoRepo_create(c, new_user, oid, salt, storeOk) ==
    LET hashed_password == hash(new_user.password, salt)
        new_doc == User(None, new_user.name, new_user.email, hashed_password)
    IN  IF ~storeOk THEN Panic(c)
        ELSE Ok(<< >>, Some(oid), insert_one(c, new_doc, oid))

MongoRepo_get_user(c, id, storeOk) ==
    LET obj_id == parse_str(id)
    IN  IF ~obj_id.ok THEN Panic(c)
        ELSE IF ~storeOk THEN Panic(c)
        ELSE LET user == find_one(c, obj_id.oid)
             IN  IF is_some(user) THEN Ok(user, None, c) ELSE Panic(c)

MongoRepo_update_user(c, id, user, storeOk) ==
    LET obj_id == parse_str(id)
    IN  IF ~obj_id.ok THEN Panic(c)
        ELSE IF ~storeOk THEN Panic(c)
        ELSE LET r == find_one_and_update(c, obj_id.oid, user)
             IN  IF is_some(r.found) THEN Ok(r.found, None, r.col)
                 ELSE Panic(r.col)

MongoRepo_delete_user(c, id, storeOk) ==
    LET obj_id == parse_str(id)
    IN  IF ~obj_id.ok THEN Panic(c)
        ELSE IF ~storeOk THEN Panic(c)
        ELSE LET r == find_one_and_delete(c, obj_id.oid)
             IN  IF is_some(r.found) THEN Ok(r.found, None, r.col)
                 ELSE Panic(r.col)

MongoRepo_get_all_users(c, storeOk) ==
    IF ~storeOk THEN Panic(c) ELSE Ok(find(c), None, c)

\* ------------------------------------------------------------- Rocket
\* The response Rocket sends for what a handler produced: the Status the
\* handler returned, or 500 when the handler panicked.
status(outcome) ==
    IF outcome = "Ok" THEN 200
    ELSE IF outcome = "BadRequest" THEN 400
    ELSE IF outcome = "NotFound" THEN 404
    ELSE IF outcome \in {"InternalServerError", "panic"} THEN 500
    ELSE 0

\* One handler step: the request, what the handler produced, the response,
\* the store round trips of the step and whether the store failed in it.
Step(op, id, body, outcome, trips, storeOk, users, inserted) ==
    [op |-> op, id |-> id, body |-> body, outcome |-> outcome,
     status |-> status(outcome), trips |-> trips, storeOk |-> storeOk,
     users |-> users, inserted |-> inserted]

Idle == [pc |-> "idle", id |-> << >>, body |-> << >>, later |-> {}]

\* The match on a repository Result<_, Error> in the handlers.
match_result(r, okOutcome) ==
    IF r.res = "Ok" THEN okOutcome
    ELSE IF r.res = "Err" THEN "InternalServerError"
    ELSE "panic"

\* ------------------------------------------------------------- handlers
\* POST /user
create_user(new_user, salt, storeOk) ==
    /\ Cardinality(issued) < MaxUsers
    /\ Cardinality(issued) < Cardinality(Oids)
    /\ LET oid == ObjectId_new(Cardinality(issued))
           user == [name |-> new_user.name, email |-> new_user.email,
                    password |-> new_user.password]
           result == MongoRepo_create(col, user, oid, salt, storeOk)
       IN  /\ col' = result.col
           /\ issued' = IF result.res = "Ok" THEN issued \cup {oid} ELSE issued
           /\ created' = IF result.res = "Ok" THEN created + 1 ELSE created
           /\ last' = Step("create_user", << >>, Some(new_user),
                           match_result(result, "Ok"), 1, storeOk,
                           << >>, result.inserted)
    /\ UNCHANGED <<put, deleted>>

\* GET /user/<id>
get_user(id, storeOk) ==
    /\ IF is_empty(id)
       THEN /\ last' = Step("get_user", id, None, "BadRequest", 0, storeOk,
                            << >>, None)
            /\ col' = col
       ELSE LET user == MongoRepo_get_user(col, id, storeOk)
                trips == IF parse_str(id).ok THEN 1 ELSE 0
            IN  /\ last' = Step("get_user", id, None, match_result(user, "Ok"),
                                trips, storeOk, user.users, None)
                /\ col' = user.col
    /\ UNCHANGED <<issued, put, created, deleted>>

\* DELETE /user/<id>
delete_user(id, storeOk) ==
    /\ IF is_empty(id)
       THEN /\ last' = Step("delete_user", id, None, "BadRequest", 0, storeOk,
                            << >>, None)
            /\ col' = col
            /\ deleted' = deleted
       ELSE LET result == MongoRepo_delete_user(col, id, storeOk)
                trips == IF parse_str(id).ok THEN 1 ELSE 0
                outcome ==
                    IF result.res = "Ok"
                    THEN IF is_some(result.users[1].id) THEN "Ok" ELSE "NotFound"
                    ELSE match_result(result, "Ok")
            IN  /\ last' = Step("delete_user", id, None, outcome, trips, storeOk,
                                << >>, None)
                /\ col' = result.col
                /\ deleted' = IF result.res = "Ok" THEN deleted + 1 ELSE deleted
    /\ UNCHANGED <<issued, put, created>>

\* GET /users
get_all_users(storeOk) ==
    /\ LET users == MongoRepo_get_all_users(col, storeOk)
       IN  /\ last' = Step("get_all_users", << >>, None,
                           match_result(users, "Ok"), 1, storeOk,
                           users.users, None)
           /\ col' = users.col
    /\ UNCHANGED <<issued, put, created, deleted>>

\* The PUT requests between their two round trips on the document oid see
\* the body of an update applied to it by another request.
NoteWrite(p, c, oid, body) ==
    [k \in Clients |->
        IF k # c /\ p[k].pc = "get" /\ parse_str(p[k].id).oid = oid
        THEN [p[k] EXCEPT !.later = @ \cup {body}]
        ELSE p[k]]

\* PUT /user/<id>, up to and including the first round trip (db.update_user).
update_user(c, id, new_user, storeOk) ==
    /\ put[c].pc = "idle"
    /\ IF is_empty(id)
       THEN /\ last' = Step("update_user", id, None, "BadRequest", 0,
                            storeOk, << >>, None)
            /\ UNCHANGED <<col, put>>
       ELSE IF ~parse_str(id).ok
       THEN /\ last' = Step("update_user", id, None, "panic", 0,
                            storeOk, << >>, None)
            /\ UNCHANGED <<col, put>>
       ELSE LET user == [name |-> new_user.name, email |-> new_user.email,
                         password |-> new_user.password]
                result == MongoRepo_update_user(col, id, user, storeOk)
            IN  /\ col' = result.col
                /\ IF result.res = "Ok"
                   THEN IF is_some(result.users[1].id)
                        THEN /\ put' = [NoteWrite(put, c, parse_str(id).oid, new_user)
                                          EXCEPT ![c] = [pc |-> "get", id |-> id,
                                                         body |-> Some(new_user),
                                                         later |-> {}]]
                             /\ last' = Step("update_user", id, None,
                                             "pending", 1, storeOk, << >>, None)
                        ELSE /\ put' = NoteWrite(put, c, parse_str(id).oid, new_user)
                             /\ last' = Step("update_user", id, None,
                                             "NotFound", 1, storeOk, << >>, None)
                   ELSE /\ put' = put
                        /\ last' = Step("update_user", id, None,
                                        match_result(result, "Ok"), 1, storeOk,
                                        << >>, None)
    /\ UNCHANGED <<issued, created, deleted>>

\* PUT /user/<id>, the second round trip (db.get_user) and the response.
update_user_get(c, storeOk) ==
    /\ put[c].pc = "get"
    /\ LET updated_user_info == MongoRepo_get_user(col, put[c].id, storeOk)
       IN  /\ last' = Step("update_user_get", put[c].id, put[c].body,
                           match_result(updated_user_info, "Ok"), 1, storeOk,
                           updated_user_info.users, None)
           /\ col' = updated_user_info.col
    /\ put' = [put EXCEPT ![c] = Idle]
    /\ UNCHANGED <<issued, created, deleted>>

\* ------------------------------------------------------------- system
\* The service starts on an empty collection with no request in flight.
Init ==
    /\ col = << >>
    /\ issued = {}
    /\ put = [c \in Clients |-> Idle]
    /\ last = Step("init", << >>, None, "none", 0, TRUE, << >>, None)
    /\ created = 0
    /\ deleted = 0

Next ==
    \/ \E u \in Candidates, salt \in Salts, ok \in BOOLEAN :
          create_user(u, salt, ok)
    \/ \E id \in IdStrings, ok \in BOOLEAN : get_user(id, ok)
    \/ \E id \in IdStrings, ok \in BOOLEAN : delete_user(id, ok)
    \/ \E ok \in BOOLEAN : get_all_users(ok)
    \/ \E c \in Clients, id \in IdStrings, u \in Candidates, ok \in BOOLEAN :
          update_user(c, id, u, ok)
    \/ \E c \in Clients, ok \in BOOLEAN : update_user_get(c, ok)

Spec == Init /\ [][Next]_vars

\* ------------------------------------------------------------- helpers
Fields(d) == [name |-> d.name, email |-> d.email, password |-> d.password]

\* A string of OidLen hex digits.
WellFormedId(s) == Len(s) = OidLen /\ \A i \in 1..Len(s) : s[i] \in {"0", "1", "2"}

\* The ObjectId a well-formed string denotes.
OidOf(s) == [i \in 1..Len(s) |-> IF s[i] = "0" THEN 0 ELSE IF s[i] = "1" THEN 1 ELSE 2]

Stored(c, s) == \E i \in 1..Len(c) : c[i].id = Some(OidOf(s))

Plaintexts == {u.password : u \in Candidates}

\* ------------------------------------------------------------- properties

\* C1: a get that directly follows a successful create, on the identifier the
\* create returned and with the store reachable, succeeds with a record whose
\* name and email are the candidate's and whose password differs from the
\* candidate's plaintext password.
C1_CreateThenGet ==
    [][ ( /\ last.op = "create_user" /\ last.outcome = "Ok"
          /\ last'.op = "get_user" /\ last'.storeOk
          /\ last'.id = to_hex(last.inserted[1]) )
        => /\ last'.outcome = "Ok" /\ last'.status = 200
           /\ Len(last'.users) = 1
           /\ last'.users[1].id = last.inserted
           /\ last'.users[1].name = last.body[1].name
           /\ last'.users[1].email = last.body[1].email
           /\ last'.users[1].password # last.body[1].password ]_vars

C1_Witness ==
    /\ last.op = "get_user" /\ last.outcome = "Ok"
    /\ created = 1 /\ deleted = 0 /\ Len(col) = 1
    /\ \E u \in Candidates :
          /\ last.users[1].name = u.name /\ last.users[1].email = u.email
          /\ last.users[1].password = hash(u.password, "s1")

\* C2: the password of every stored record is a hash and never a plaintext
\* value a client supplied in a request body.
C2_StoredPasswordsHashed ==
    \A i \in 1..Len(col) :
        IsHash(col[i].password) /\ col[i].password \notin Plaintexts

\* C3: an update on a well-formed identifier that matches no stored record,
\* with the store reachable, ends in NotFound / 404 and leaves the collection
\* unchanged.
C3_UpdateMissingIsNotFound ==
    [][ ( /\ last'.op = "update_user" /\ last'.storeOk
          /\ WellFormedId(last'.id) /\ ~Stored(col, last'.id) )
        => /\ last'.outcome = "NotFound" /\ last'.status = 404
           /\ col' = col ]_vars

C6_UpdateFrame ==
    [][ (last'.op = "update_user" /\ last'.outcome = "pending")
        => /\ Len(col') = Len(col)
           /\ \A i \in 1..Len(col) :
                 /\ col'[i].id = col[i].id
                 /\ col[i].id # Some(OidOf(last'.id)) => col'[i] = col[i] ]_vars

C6_Witness ==
    /\ last.op = "update_user" /\ last.outcome = "pending"
    /\ Len(col) = 2
    /\ \E i, j \in 1..Len(col) :
          /\ col[i].id = Some(OidOf(last.id))
          /\ col[i].password \in Plaintexts
          /\ col[j].id # col[i].id /\ IsHash(col[j].password)

C8_EmptyIdIs400 ==
    [][ ( /\ last'.op \in {"get_user", "update_user", "delete_user"}
          /\ last'.id = << >> )
        => /\ last'.outcome = "BadRequest" /\ last'.status = 400
           /\ last'.trips = 0
           /\ col' = col /\ put' = put /\ deleted' = deleted ]_vars

C8_Witness ==
    /\ last.op = "update_user" /\ last.id = << >> /\ last.status = 400
    /\ Len(col) > 0

\* Two PUT requests of different clients, both between their two round trips
\* on the same stored record: both updates have been applied and answered Ok.
Racing(c1, c2) ==
    /\ c1 # c2
    /\ put[c1].pc = "get" /\ put[c2].pc = "get"
    /\ put[c1].id = put[c2].id
    /\ Stored(col, put[c1].id)

DocIn(c, s) == c[CHOOSE i \in 1..Len(c) : c[i].id = Some(OidOf(s))]

DocOf(s) == DocIn(col, s)

C9_State ==
    \A c1, c2 \in Clients :
        Racing(c1, c2) =>
            /\ (put[c1].later = {}) # (put[c2].later = {})
            /\ \A c \in {c1, c2} :
                  put[c].later = {} => Fields(DocOf(put[c].id)) = put[c].body[1]
            /\ Fields(DocOf(put[c1].id)) \in {put[c1].body[1], put[c2].body[1]}

\* C9: of two concurrent updates of one stored record exactly one was applied
\* last, the record's name, email and password are that update's candidate
\* and never a mixture, and an update that meets a record another PUT has
\* just written is applied like any other (no conflict is reported).
C9_LastWriteWins ==
    [][ /\ C9_State'
        /\ ( /\ last'.op = "update_user" /\ last'.storeOk
             /\ WellFormedId(last'.id) /\ Stored(col, last'.id)
             /\ \E c \in Clients : put[c].pc = "get" /\ put[c].id = last'.id )
           => /\ last'.outcome = "pending"
              /\ \E c \in Clients :
                    /\ put[c].pc = "idle" /\ put'[c].pc = "get"
                    /\ Fields(DocIn(col', last'.id)) = put'[c].body[1] ]_vars

C9_Witness ==
    \E c1, c2 \in Clients :
        /\ Racing(c1, c2)
        /\ put[c1].body # put[c2].body
        /\ put[c1].later = {put[c2].body[1]} /\ put[c2].later = {}
        /\ Fields(DocOf(put[c1].id)) = put[c2].body[1]
        /\ last.op = "update_user" /\ last.outcome = "pending"

\* C10: when the second round trip of a PUT succeeds, the returned record has
\* the path's id, and its name, email and password are the PUT's own body or
\* the body of another update applied to that id after this PUT's update.
C10_PutReadsOwnOrLater ==
    [][ \A c \in Clients :
          ( /\ put[c].pc = "get" /\ put'[c].pc = "idle"
            /\ last'.outcome = "Ok" )
          => /\ last'.op = "update_user_get" /\ last'.status = 200
             /\ Len(last'.users) = 1
             /\ last'.users[1].id = Some(OidOf(put[c].id))
             /\ Fields(last'.users[1]) \in {put[c].body[1]} \cup put[c].later ]_vars

C10_Witness ==
    /\ last.op = "update_user_get" /\ last.outcome = "Ok"
    /\ Len(col) = 2 /\ last.users[1].id = col[2].id
    /\ Fields(last.users[1]) # last.body[1]

====
